---- MODULE Spec2Model ----
(***************************************************************************)
(* Client state of the KRAFT chat front end: the static chat page          *)
(* (static/js/chat.js with static/js/script.js), the legacy idea chat      *)
(* script with its own socket handling, the React block page on top of     *)
(* the zustand block store, and the React idea page on top of the session  *)
(* store.  One browser page runs one of them; `page` says which.           *)
(***************************************************************************)
EXTENDS Integers, Sequences, FiniteSets, TLC

(* ------------------------------ bounds --------------------------------- *)
\* server-side block / session ids are 1..MaxIds
MaxIds == 2
\* locally generated (uuid) block ids are -1..-MaxLocal
MaxLocal == 1
\* longest message history the model follows
MaxHistory == 3
\* most messages the server returns for one block or session
MaxServerMsgs == 1
\* most requests of one kind (load, create, fetch, send, delete) in flight
MaxPending == 1

Null == 0
ServerIds == 1..MaxIds
LocalIds == {0 - i : i \in 1..MaxLocal}

VARIABLES
  page,          \* which page script runs in this browser tab
  store,         \* the zustand block store (store/chatStore.js)
  loads,         \* BlockPage.loadBlock calls awaiting api.getBlock
  creates,       \* createNewBlockHandler calls awaiting api.createBlock
  fetches,       \* BlockChatInterface fetchMessages calls awaiting api.getBlock
  sends,         \* handleSendMessage calls awaiting the analysis reply
  deletes,       \* handleDeleteBlock calls awaiting api.deleteBlock
  chat,          \* chat.js: its globals and the DOM state it drives
  sessionsList,  \* chat.js: the <li> items of #sessions-list, in order
  chatLoads,     \* loadSession calls awaiting GET /api/sessions/{id}
  chatCreates,   \* createNewSession calls awaiting POST /api/sessions/new
  chatSends,     \* sendMessage calls awaiting POST /api/chat, each with the
                 \* session it was sent in and the history length before it
  chatDeletes,   \* deleteSessionById calls awaiting DELETE /api/sessions/{id}
  sessionStore,  \* the zustand session store of the idea page
  streamingMessage, \* the store's buffer of the response being streamed
  evtSource,     \* ChatInterface: evtSourceRef.current
  streams,       \* the EventSources that are open
  ideaLoads,     \* IdeaPage.loadSession calls awaiting the session
  ideaCreates,   \* IdeaPage.createNewSession calls awaiting the new session
  ideaUrl,       \* IdeaPage: the session parameter of the URL
  ideaEffect,    \* IdeaPage: the effect on [searchParams] is due to run
  sent,          \* ChatInterface: how many EventSources were made so far
  cancelled,     \* the EventSources a later send closed while they were open
  reconnectAttempts, \* legacy script: the reconnect attempt counter
  timers,        \* legacy script: reconnect timers that have not fired yet
  sockets,       \* legacy script: the sockets made so far, each one's state
  reachedMax,    \* whether reconnectAttempts has been at the maximum
  catchUps,      \* legacy script: visibility fetches awaiting their reply
  dropped,       \* whether a catch-up merge has dropped a fetched message
  exported,      \* what each click on the export button led to, in order
  analystResults,      \* analyst script: the in-memory array of results
  analystResultsIndex, \* local storage: the entries of analystResultsIndex
  callArg        \* the message list a caller hands to setMessageHistory

blockVars == <<store, loads, creates, fetches, sends, deletes>>
chatVars == <<chat, sessionsList, chatLoads, chatCreates, chatSends, chatDeletes>>
ideaVars == <<sessionStore, streamingMessage, evtSource, streams, ideaLoads,
              ideaCreates, ideaUrl, ideaEffect, sent, cancelled>>
\* the idea page's state outside the session store
ideaRest == <<streamingMessage, evtSource, streams, ideaLoads, ideaCreates,
              ideaUrl, ideaEffect, sent, cancelled>>
legacyVars == <<reconnectAttempts, timers, sockets, reachedMax, catchUps, dropped>>
auxVars == <<exported, analystResults, analystResultsIndex, callArg>>
vars == <<page, store, loads, creates, fetches, sends, deletes,
          chat, sessionsList, chatLoads, chatCreates, chatSends, chatDeletes,
          sessionStore, streamingMessage, evtSource, streams, ideaLoads, ideaCreates,
          ideaUrl, ideaEffect, sent, cancelled,
          reconnectAttempts, timers, sockets, reachedMax, catchUps, dropped,
          exported, analystResults, analystResultsIndex, callArg>>

\* the legacy script before DOMContentLoaded
LegacyIdle ==
  /\ reconnectAttempts = 0
  /\ timers = 0
  /\ sockets = <<>>
  /\ reachedMax = FALSE
  /\ catchUps = 0
  /\ dropped = FALSE

\* nothing exported yet, no analyst result received or stored
AuxIdle ==
  /\ exported = <<>>
  /\ analystResults = <<>>
  /\ analystResultsIndex = <<>>
  /\ callArg = <<>>

(* ------------------------------ messages ------------------------------- *)
\* A message: role, content, timestamp ("none" when the field is missing),
\* the error flag, and `of`: the session/block whose conversation it
\* belongs to (the one it was loaded for, or sent or received in).
Message(role, content, timestamp, error, of) ==
  [role |-> role, content |-> content, timestamp |-> timestamp,
   error |-> error, of |-> of]

\* new Date().toISOString()
NowISO == "now"

Append1(s, m) == s \o <<m>>

(* ------------------------- the block store ----------------------------- *)
DefaultBlockInfo ==
  [created |-> "none", messageCount |-> 0, type |-> "general", blockId |-> Null]

InitialStore ==
  [userId |-> Null, currentBlockId |-> Null, blocks |-> <<>>,
   messageHistory |-> <<>>, isTyping |-> FALSE, blockInfo |-> DefaultBlockInfo,
   logs |-> <<"ready">>]

\* the values uuidv4() can give
Uuids == 1..MaxIds

\* initializeUser that makes a new id whether or not there is one
initializeUser_Regenerate(st, uuid) == [st EXCEPT !.userId = uuid]

\* uuid: the value uuidv4() gives if it is called
initializeUser(st, uuid) ==
  IF st.userId = Null THEN [st EXCEPT !.userId = uuid] ELSE st

setCurrentBlockId(st, blockId) == [st EXCEPT !.currentBlockId = blockId]

\* addMessage that counts the history it found, not the one it stores
addMessage_StaleCount(st, message) ==
  [st EXCEPT !.messageHistory = Append1(st.messageHistory, message),
             !.blockInfo.messageCount = Len(st.messageHistory)]

addMessage(st, message) ==
  LET newHistory == Append1(st.messageHistory, message)
  IN [st EXCEPT !.messageHistory = newHistory,
                !.blockInfo.messageCount = Len(newHistory)]

setBlocks(st, blocks) == [st EXCEPT !.blocks = blocks]

IndexOfId(list, id) ==
  IF \E i \in 1..Len(list) : list[i].id = id
  THEN CHOOSE i \in 1..Len(list) :
         list[i].id = id /\ \A j \in 1..(i - 1) : list[j].id # id
  ELSE 0

FilterOutId(list, id) == SelectSeq(list, LAMBDA e : e.id # id)

\* addBlock that puts every block at the head without looking for its id
addBlock_AlwaysNew(st, block) == [st EXCEPT !.blocks = <<block>> \o st.blocks]

addBlock(st, block) ==
  LET existingIndex == IndexOfId(st.blocks, block.id)
  IN IF existingIndex >= 1
     THEN [st EXCEPT !.blocks[existingIndex] = block]
     ELSE [st EXCEPT !.blocks = <<block>> \o st.blocks]

removeBlock(st, blockId) ==
  [st EXCEPT !.blocks = FilterOutId(st.blocks, blockId),
             !.currentBlockId =
                IF blockId = st.currentBlockId THEN Null ELSE st.currentBlockId,
             !.messageHistory =
                IF blockId = st.currentBlockId THEN <<>> ELSE st.messageHistory]

\* a normalisation that stamps every message anew
WithTimestamp_Always(msg) == [msg EXCEPT !.timestamp = NowISO]

WithTimestamp(msg) ==
  IF msg.timestamp = "none" THEN [msg EXCEPT !.timestamp = NowISO] ELSE msg

setMessageHistory(st, messages) ==
  LET messagesWithTimestamps ==
        [i \in 1..Len(messages) |-> WithTimestamp(messages[i])]
  IN [st EXCEPT !.messageHistory = messagesWithTimestamps,
                !.blockInfo.messageCount = Len(messagesWithTimestamps)]

\* a clear that leaves the count of the cleared history behind
clearMessages_StaleCount(st) ==
  [st EXCEPT !.messageHistory =
                <<Message("system", "cleared", NowISO, FALSE, st.currentBlockId)>>]

clearMessages(st) ==
  [st EXCEPT !.messageHistory =
                <<Message("system", "cleared", NowISO, FALSE, st.currentBlockId)>>,
             !.blockInfo.messageCount = 1]

\* info is a record with some of the fields of blockInfo
setBlockInfo(st, info) ==
  [st EXCEPT !.blockInfo =
     [f \in DOMAIN st.blockInfo |->
        IF f \in DOMAIN info THEN info[f] ELSE st.blockInfo[f]]]

setIsTyping(st, status) == [st EXCEPT !.isTyping = status]

\* the console log; the pages' own addLog calls are not followed
addLog(st, log) == [st EXCEPT !.logs = Append1(st.logs, log)]

\* resetStore that also forgets the user
resetStore_ClearsUser(st) ==
  [st EXCEPT !.userId = Null, !.currentBlockId = Null, !.messageHistory = <<>>,
             !.isTyping = FALSE, !.blockInfo = DefaultBlockInfo,
             !.logs = <<"ready">>]

resetStore(st) ==
  [st EXCEPT !.currentBlockId = Null, !.messageHistory = <<>>,
             !.isTyping = FALSE, !.blockInfo = DefaultBlockInfo,
             !.logs = <<"ready">>]

createNewBlock(st, blockId) ==
  LET newBlock == [id |-> blockId, name |-> "New Chat"]
      s1 == resetStore(st)
      s2 == addBlock(s1, newBlock)
      s3 == setCurrentBlockId(s2, blockId)
  IN setBlockInfo(s3, [created |-> NowISO, type |-> "general",
                       blockId |-> blockId, messageCount |-> 0])

\* a partialize that writes the conversation as well
partialize_WithHistory(st) ==
  [userId |-> st.userId, blocks |-> st.blocks,
   currentBlockId |-> st.currentBlockId, messageHistory |-> st.messageHistory]

\* persist: what is written to local storage under kraft-chat-storage
partialize(st) == [userId |-> st.userId, blocks |-> st.blocks]

\* persist on load: the stored slice is laid over the initial state
rehydrate(persisted) ==
  [f \in DOMAIN InitialStore |->
     IF f \in DOMAIN persisted THEN persisted[f] ELSE InitialStore[f]]

\* the block page before anything ran on it
BlockIdle ==
  /\ store = InitialStore
  /\ loads = {}
  /\ creates = 0
  /\ fetches = {}
  /\ sends = {}
  /\ deletes = {}

(* -------------------- the session store (idea page) --------------------- *)
DefaultSessionInfo == [created |-> "none", messageCount |-> 0, type |-> "idea"]

InitialSession ==
  [currentSessionId |-> Null, sessions |-> <<>>, messageHistory |-> <<>>,
   isTyping |-> FALSE, sessionInfo |-> DefaultSessionInfo]

\* the idea page before anything ran on it
IdeaIdle ==
  /\ sessionStore = InitialSession
  /\ streamingMessage = ""
  /\ evtSource = Null
  /\ streams = {}
  /\ ideaLoads = {}
  /\ ideaCreates = 0
  /\ ideaUrl = Null
  /\ ideaEffect = FALSE
  /\ sent = 0
  /\ cancelled = {}

setCurrentSessionId(st, sessionId) == [st EXCEPT !.currentSessionId = sessionId]

\* the session store's addMessage
sessionAddMessage(st, message) ==
  [st EXCEPT !.messageHistory = Append1(@, message),
             !.sessionInfo.messageCount = @ + 1]

setSessions(st, sessions) == [st EXCEPT !.sessions = sessions]

\* addSession: an entry is {session_id, name}; a known id is replaced where
\* it stands, a new one goes to the head
addSession(st, sess) ==
  LET existingIndex == IndexOfId(st.sessions, sess.id)
  IN IF existingIndex # 0
       THEN [st EXCEPT !.sessions[existingIndex] = sess]
       ELSE [st EXCEPT !.sessions = <<sess>> \o @]

removeSession(st, sessionId) ==
  [st EXCEPT !.sessions = FilterOutId(@, sessionId),
             !.currentSessionId = IF sessionId = @ THEN Null ELSE @,
             !.messageHistory = IF sessionId = st.currentSessionId THEN <<>> ELSE @]

\* the session store's setMessageHistory
sessionSetMessageHistory(st, messages) == [st EXCEPT !.messageHistory = messages]

\* the session store's clearMessages
sessionClearMessages(st) ==
  [st EXCEPT !.messageHistory =
               <<Message("system", "cleared", NowISO, FALSE, st.currentSessionId)>>,
             !.sessionInfo.messageCount = 1]

setSessionInfo(st, info) ==
  [st EXCEPT !.sessionInfo =
     [f \in DOMAIN @ |-> IF f \in DOMAIN info THEN info[f] ELSE @[f]]]

\* the session store's setIsTyping
sessionSetIsTyping(st, status) == [st EXCEPT !.isTyping = status]

\* the session store's resetStore: the session list is kept
sessionResetStore(st) ==
  [st EXCEPT !.currentSessionId = Null, !.messageHistory = <<>>,
             !.isTyping = FALSE, !.sessionInfo = DefaultSessionInfo]

(* -------------------- the static chat page ----------------------------- *)
\* chat.js before DOMContentLoaded: no session, empty history, input usable
InitialChat ==
  [currentSessionId |-> Null, messageHistory |-> <<>>, isTyping |-> FALSE,
   inputDisabled |-> FALSE, messageCount |-> 0]

ChatIdle ==
  /\ chat = InitialChat
  /\ sessionsList = <<>>
  /\ chatLoads = {}
  /\ chatCreates = 0
  /\ chatSends = {}
  /\ chatDeletes = {}

\* every step of the static chat page leaves the block page's state alone
ChatStep == page = "chat" /\ UNCHANGED <<page, blockVars, ideaVars, legacyVars, auxVars>>

\* messageCount.textContent = messageHistory.length
updateMessageCount(c) == [c EXCEPT !.messageCount = Len(c.messageHistory)]

\* updateSessionInfo(session): id and date display, updateMessageCount(),
\* active item of the list
updateSessionInfo(c) == updateMessageCount(c)

showTypingIndicator(c, show) == [c EXCEPT !.isTyping = show]

FirstSystem(history) ==
  LET systemMessages == SelectSeq(history, LAMBDA m : m.role = "system")
  IN IF Len(systemMessages) > 0 THEN <<systemMessages[1]>> ELSE <<>>

\* clearChat once confirmed (or called with askConfirmation = false): keep the
\* first system message, or start from a "cleared" notice
clearChat(c) ==
  LET kept == FirstSystem(c.messageHistory)
      cleared == Message("system", "cleared", NowISO, FALSE, c.currentSessionId)
  IN updateMessageCount(
       [c EXCEPT !.messageHistory = IF kept # <<>> THEN kept ELSE <<cleared>>])

\* receiveMessage that leaves the typing indicator as it is
receiveMessage_KeepTyping(c, data) ==
  LET msgObj == Message("assistant", data.content,
                        IF data.timestamp = "none" THEN NowISO ELSE data.timestamp,
                        FALSE, data.of)
  IN updateMessageCount([c EXCEPT !.messageHistory = Append1(@, msgObj)])

\* receiveMessage(data): data carries the response text, maybe a timestamp,
\* and was produced by the server for session data.of
receiveMessage(c, data) ==
  LET msgObj == Message("assistant", data.content,
                        IF data.timestamp = "none" THEN NowISO ELSE data.timestamp,
                        FALSE, data.of)
      c1 == showTypingIndicator(c, FALSE)
  IN updateMessageCount([c1 EXCEPT !.messageHistory = Append1(@, msgObj)])

\* ids the static page knows of; a session created by the server gets another
ChatUsedIds ==
  {sessionsList[i].id : i \in 1..Len(sessionsList)}
    \cup {chat.currentSessionId} \cup chatLoads \cup chatDeletes
    \cup {s.of : s \in chatSends}

\* addSessionToList(session, isNew): an item with this id has its title
\* rewritten where it stands; otherwise a new item goes to the top when isNew
\* and to the bottom when not
addSessionToList(list, session, isNew) ==
  LET existing == IndexOfId(list, session.id)
      li == [id |-> session.id, name |-> session.name, deleting |-> FALSE]
  IN IF existing # 0
       THEN [list EXCEPT ![existing].name = session.name]
       ELSE IF isNew THEN <<li>> \o list ELSE Append1(list, li)

\* sessionItem.classList.add("deleting"); the item goes 500 ms later
MarkDeleting(list, sessionId) ==
  [i \in 1..Len(list) |->
     IF list[i].id = sessionId THEN [list[i] EXCEPT !.deleting = TRUE] ELSE list[i]]

\* SessionGone that leaves the chat input as it is
SessionGone_InputLeft(c) ==
  [c EXCEPT !.currentSessionId = Null, !.messageCount = 0]

\* the state the chat is left in when its current session is deleted
SessionGone(c) ==
  [c EXCEPT !.currentSessionId = Null, !.messageCount = 0, !.inputDisabled = TRUE]

\* data.messages of GET /api/sessions/{id}: the n messages the server holds
SessionMessages(sessionId, n) ==
  [i \in 1..n |->
     Message(IF i % 2 = 1 THEN "user" ELSE "assistant", "stored", "created_at",
             FALSE, sessionId)]

\* li.session-content click -> loadSession(sessionId)
ClickSession(sessionId) ==
  /\ ChatStep
  /\ IndexOfId(sessionsList, sessionId) # 0
  /\ Cardinality(chatLoads \cup {sessionId}) <= MaxPending
  /\ chatLoads' = chatLoads \cup {sessionId}
  /\ UNCHANGED <<chat, sessionsList, chatCreates, chatSends, chatDeletes>>

\* loadSession, reply ok: the count is written by updateSessionInfo before
\* messageHistory is replaced by the n messages of the reply
LoadSessionOk(sessionId, n) ==
  /\ ChatStep
  /\ sessionId \in chatLoads
  /\ chatLoads' = chatLoads \ {sessionId}
  /\ chat' = [updateSessionInfo([chat EXCEPT !.currentSessionId = sessionId])
                EXCEPT !.messageHistory = SessionMessages(sessionId, n)]
  /\ UNCHANGED <<sessionsList, chatCreates, chatSends, chatDeletes>>

\* loadSession, reply not ok or no reply: log it, createNewSession()
LoadSessionFail(sessionId) ==
  /\ ChatStep
  /\ sessionId \in chatLoads
  /\ chatCreates < MaxPending
  /\ chatLoads' = chatLoads \ {sessionId}
  /\ chatCreates' = chatCreates + 1
  /\ UNCHANGED <<chat, sessionsList, chatSends, chatDeletes>>

\* #new-session-btn click -> createNewSession()
NewSession ==
  /\ ChatStep
  /\ chatCreates < MaxPending
  /\ chatCreates' = chatCreates + 1
  /\ UNCHANGED <<chat, sessionsList, chatLoads, chatSends, chatDeletes>>

createSessionOk(c, session_id) ==
  LET c1 == clearChat([c EXCEPT !.currentSessionId = session_id])
      c2 == updateSessionInfo(c1)
      welcomeMsg == Message("system", "welcome", NowISO, FALSE, session_id)
  IN [c2 EXCEPT !.messageHistory = Append1(@, welcomeMsg)]

\* createNewSession, the reply is the new session
CreateSessionOk(session_id) ==
  /\ ChatStep
  /\ chatCreates > 0
  /\ session_id \in ServerIds \ ChatUsedIds
  /\ chatCreates' = chatCreates - 1
  /\ chat' = createSessionOk(chat, session_id)
  /\ UNCHANGED <<sessionsList, chatLoads, chatSends, chatDeletes>>

\* createNewSession, the reply is JSON without a session_id (an error body):
\* currentSessionId = undefined, clearChat(false) runs, updateSessionInfo
\* throws on session_id.substring and the catch logs it
CreateSessionNoId ==
  /\ ChatStep
  /\ chatCreates > 0
  /\ chatCreates' = chatCreates - 1
  /\ chat' = clearChat([chat EXCEPT !.currentSessionId = Null])
  /\ UNCHANGED <<sessionsList, chatLoads, chatSends, chatDeletes>>

\* createNewSession, no reply or not JSON: logged
CreateSessionFail ==
  /\ ChatStep
  /\ chatCreates > 0
  /\ chatCreates' = chatCreates - 1
  /\ UNCHANGED <<chat, sessionsList, chatLoads, chatSends, chatDeletes>>

\* sendMessage: nothing but an empty text stops it; the input is usable
SendMessage ==
  /\ ChatStep
  /\ ~chat.inputDisabled
  /\ Len(chat.messageHistory) < MaxHistory
  /\ Cardinality(chatSends) < MaxPending
  /\ LET msgObj == Message("user", "typed", NowISO, FALSE, chat.currentSessionId)
         c1 == [chat EXCEPT !.inputDisabled = TRUE,
                            !.messageHistory = Append1(@, msgObj)]
     IN chat' = showTypingIndicator(updateMessageCount(c1), TRUE)
  /\ chatSends' = chatSends \cup {[of |-> chat.currentSessionId,
                                   len |-> Len(chat.messageHistory)]}
  /\ UNCHANGED <<sessionsList, chatLoads, chatCreates, chatDeletes>>

\* POST /api/chat answered ok: the body is parsed and dropped; finally the
\* input is enabled again
SendMessageOk(s) ==
  /\ ChatStep
  /\ s \in chatSends
  /\ chatSends' = chatSends \ {s}
  /\ chat' = [chat EXCEPT !.inputDisabled = FALSE]
  /\ UNCHANGED <<sessionsList, chatLoads, chatCreates, chatDeletes>>

\* a catch handler that puts the error message at the head of the history
sendMessageFailed_Prepends(c, s) ==
  LET errorMsg == Message("system", "Error", NowISO, TRUE, s.of)
      c1 == showTypingIndicator(c, FALSE)
  IN [c1 EXCEPT !.messageHistory = <<errorMsg>> \o @, !.inputDisabled = FALSE]

sendMessageFailed(c, s) ==
  LET errorMsg == Message("system", "Error", NowISO, TRUE, s.of)
      c1 == showTypingIndicator(c, FALSE)
  IN [c1 EXCEPT !.messageHistory = Append1(@, errorMsg), !.inputDisabled = FALSE]

\* POST /api/chat failed: error message in the chat, input enabled again
SendMessageFail(s) ==
  /\ ChatStep
  /\ s \in chatSends
  /\ Len(chat.messageHistory) < MaxHistory
  /\ chatSends' = chatSends \ {s}
  /\ chat' = sendMessageFailed(chat, s)
  /\ UNCHANGED <<sessionsList, chatLoads, chatCreates, chatDeletes>>

\* socket "chat_response": receiveMessage(data), whatever session it is for
ChatResponse(data) ==
  /\ ChatStep
  /\ Len(chat.messageHistory) < MaxHistory
  /\ chat' = receiveMessage(chat, data)
  /\ UNCHANGED <<sessionsList, chatLoads, chatCreates, chatSends, chatDeletes>>

\* socket "typing_indicator"
TypingIndicator(session_id, is_typing) ==
  /\ ChatStep
  /\ chat.currentSessionId # Null
  /\ session_id = chat.currentSessionId
  /\ chat' = showTypingIndicator(chat, is_typing)
  /\ UNCHANGED <<sessionsList, chatLoads, chatCreates, chatSends, chatDeletes>>

\* socket "session_update"
SessionUpdate(session_id) ==
  /\ ChatStep
  /\ chat.currentSessionId # Null
  /\ session_id = chat.currentSessionId
  /\ chat' = updateSessionInfo(chat)
  /\ UNCHANGED <<sessionsList, chatLoads, chatCreates, chatSends, chatDeletes>>

\* socket "new_session_created": addSessionToList(data, true)
NewSessionCreated(session) ==
  /\ ChatStep
  /\ sessionsList' = addSessionToList(sessionsList, session, TRUE)
  /\ UNCHANGED <<chat, chatLoads, chatCreates, chatSends, chatDeletes>>

\* #clear-chat-btn click, confirmed when asked
ClearChat ==
  /\ ChatStep
  /\ chat' = clearChat(chat)
  /\ UNCHANGED <<sessionsList, chatLoads, chatCreates, chatSends, chatDeletes>>

\* .delete-session-btn click on an item of the list, confirmed
DeleteSessionById(sessionId) ==
  /\ ChatStep
  /\ IndexOfId(sessionsList, sessionId) # 0
  /\ Cardinality(chatDeletes \cup {sessionId}) <= MaxPending
  /\ chatDeletes' = chatDeletes \cup {sessionId}
  /\ UNCHANGED <<chat, sessionsList, chatLoads, chatCreates, chatSends>>

\* DELETE /api/sessions/{id} answered ok
DeleteSessionOk(sessionId) ==
  /\ ChatStep
  /\ sessionId \in chatDeletes
  /\ chatDeletes' = chatDeletes \ {sessionId}
  /\ sessionsList' = MarkDeleting(sessionsList, sessionId)
  /\ chat' = IF sessionId = chat.currentSessionId THEN SessionGone(chat) ELSE chat
  /\ UNCHANGED <<chatLoads, chatCreates, chatSends>>

\* DELETE /api/sessions/{id} failed: logged
DeleteSessionFail(sessionId) ==
  /\ ChatStep
  /\ sessionId \in chatDeletes
  /\ chatDeletes' = chatDeletes \ {sessionId}
  /\ UNCHANGED <<chat, sessionsList, chatLoads, chatCreates, chatSends>>

\* socket "session_deleted": onSessionDeleted(data.session_id)
onSessionDeleted(sessionId) ==
  /\ ChatStep
  /\ chat' = IF sessionId = chat.currentSessionId THEN SessionGone(chat) ELSE chat
  /\ sessionsList' = MarkDeleting(sessionsList, sessionId)
  /\ UNCHANGED <<chatLoads, chatCreates, chatSends, chatDeletes>>

\* the 500 ms timer of an item marked "deleting": sessionItem.remove()
RemoveSessionItem(sessionId) ==
  /\ ChatStep
  /\ \E i \in 1..Len(sessionsList) :
       sessionsList[i].id = sessionId /\ sessionsList[i].deleting
  /\ sessionsList' = FilterOutId(sessionsList, sessionId)
  /\ UNCHANGED <<chat, chatLoads, chatCreates, chatSends, chatDeletes>>

\* after DOMContentLoaded: initializeSession has read the `session` parameter
\* of the URL and asked for that session, or for a new one when there is none
InitChat ==
  /\ page = "chat"
  /\ \E sessionId \in ServerIds \cup {Null} :
       /\ chat = [InitialChat EXCEPT !.currentSessionId = sessionId]
       /\ chatLoads = IF sessionId # Null THEN {sessionId} ELSE {}
       /\ chatCreates = IF sessionId # Null THEN 0 ELSE 1
  /\ sessionsList = <<>>
  /\ chatSends = {}
  /\ chatDeletes = {}
  /\ BlockIdle
  /\ IdeaIdle
  /\ LegacyIdle
  /\ AuxIdle

SessionNames == {"New Idea Session"}
Responses == [content : {"response"}, timestamp : {"none"}, of : ServerIds]

\* the chat itself: session loading and creation, sending, push events
NextChat ==
  \/ \E sessionId \in ServerIds, n \in 0..MaxServerMsgs : LoadSessionOk(sessionId, n)
  \/ NewSession
  \/ \E session_id \in ServerIds : CreateSessionOk(session_id)
  \/ SendMessage
  \/ \E s \in chatSends : SendMessageOk(s)
  \/ \E s \in chatSends : SendMessageFail(s)
  \/ \E data \in Responses : ChatResponse(data)
  \/ \E session_id \in ServerIds, is_typing \in BOOLEAN :
       TypingIndicator(session_id, is_typing)
  \/ \E session_id \in ServerIds : SessionUpdate(session_id)
  \/ ClearChat

SpecChat == InitChat /\ [][NextChat]_vars

C6_Original ==
  [][\A session_id \in ServerIds :
       (chat = InitialChat /\ CreateSessionOk(session_id)) =>
          /\ chat'.currentSessionId = session_id
          /\ Len(chat'.messageHistory) = 1
          /\ chat'.messageHistory[1].role = "system"
          /\ chat'.messageHistory[1].content = "welcome"
          /\ chat'.messageCount = 1]_vars

(* ------------------ the block page (BlockPage.js) ---------------------- *)
\* every step of the block page leaves the other pages' state alone
BlockStep == page = "block" /\ UNCHANGED <<page, chatVars, ideaVars, legacyVars, auxVars>>

\* getWelcomeMessage(blockType) wrapped as a system message; it is written for
\* the block that is current when it is created
WelcomeMessage(st) ==
  Message("system", "welcome", NowISO, FALSE, st.currentBlockId)

\* data.messages of GET /blocks/{id}: n stored messages of block blockId,
\* mapped to the display format (role, content, timestamp, fullResponse)
FormattedMessages(blockId, n) ==
  [i \in 1..n |->
     Message(IF i % 2 = 1 THEN "user" ELSE "assistant", "stored",
             "created_at", FALSE, blockId)]

UsedIds ==
  {store.blocks[i].id : i \in 1..Len(store.blocks)}
    \cup {store.currentBlockId} \cup loads \cup fetches \cup deletes
    \cup {s.of : s \in sends}

\* A handler leaves the store as `st`; React renders, and the effect of
\* BlockChatInterface on [currentBlockId, userId, blockType] runs: when the
\* current block changed to a block, the typing indicator is shown and
\* fetchMessages asks the server for its messages.
BlockChanged(st) ==
  st.currentBlockId # store.currentBlockId /\ st.currentBlockId # Null /\ st.userId # Null

Render(st) ==
  /\ BlockChanged(st) => Cardinality(fetches \cup {st.currentBlockId}) <= MaxPending
  /\ store' = IF BlockChanged(st) THEN setIsTyping(st, TRUE) ELSE st
  /\ fetches' = IF BlockChanged(st) THEN fetches \cup {st.currentBlockId} ELSE fetches

\* useEffect of BlockPage and BlockChatInterface: initializeUser()
InitializeUser ==
  /\ BlockStep
  /\ store.userId = Null
  /\ \E uuid \in Uuids : store' = initializeUser(store, uuid)
  /\ UNCHANGED <<loads, creates, fetches, sends, deletes>>

\* the BlockPage effect runs for a (new) blockId prop: the previous run's
\* cleanup resets the store, then the block is loaded, or a new one created
\* when the prop is null
BlockPageEffect(blockId) ==
  /\ BlockStep
  /\ store.userId # Null
  /\ IF blockId # Null
     THEN /\ Cardinality(loads \cup {blockId}) <= MaxPending
          /\ store' = setIsTyping(resetStore(store), TRUE)
          /\ loads' = loads \cup {blockId}
          /\ UNCHANGED creates
     ELSE /\ store' = resetStore(store)
          /\ creates < MaxPending
          /\ creates' = creates + 1
          /\ UNCHANGED loads
  /\ UNCHANGED <<fetches, sends, deletes>>

\* loadBlock after api.getBlock resolved with n stored messages
loadBlockOk(st, blockId, n) ==
  LET s1 == setCurrentBlockId(st, blockId)
      s2 == setBlockInfo(s1, [created |-> "created_at", messageCount |-> n,
                              type |-> "general", blockId |-> blockId])
      s3 == setMessageHistory(s2, FormattedMessages(blockId, n))
      s4 == IF n = 0 THEN setMessageHistory(s3, <<WelcomeMessage(s3)>>) ELSE s3
  IN setIsTyping(s4, FALSE)

LoadBlockOk(blockId, n) ==
  /\ BlockStep
  /\ blockId \in loads
  /\ loads' = loads \ {blockId}
  /\ Render(loadBlockOk(store, blockId, n))
  /\ UNCHANGED <<creates, sends, deletes>>

\* loadBlock whose catch would also put the failure into the chat
loadBlockFailed_Surfaced(st) ==
  setIsTyping(
    addMessage(st, Message("system", "error", NowISO, TRUE, st.currentBlockId)),
    FALSE)

\* loadBlock after api.getBlock rejected: log, createNewBlockHandler(), finally
loadBlockFailed(st) == setIsTyping(st, FALSE)

LoadBlockFail(blockId) ==
  /\ BlockStep
  /\ blockId \in loads
  /\ loads' = loads \ {blockId}
  /\ creates < MaxPending
  /\ creates' = creates + 1
  /\ store' = loadBlockFailed(store)
  /\ UNCHANGED <<fetches, sends, deletes>>

\* the header's New Chat button: createNewBlockHandler
NewChat ==
  /\ BlockStep
  /\ store.userId # Null
  /\ creates < MaxPending
  /\ creates' = creates + 1
  /\ UNCHANGED <<store, loads, fetches, sends, deletes>>

\* createNewBlockHandler after api.createBlock resolved with a new block id
createBlockOk(st, blockId) ==
  LET s1 == setCurrentBlockId(st, blockId)
      s2 == setBlockInfo(s1, [created |-> "created_at", type |-> "general",
                              blockId |-> blockId, messageCount |-> 1])
  IN setMessageHistory(s2, <<WelcomeMessage(s2)>>)

CreateBlockOk(blockId) ==
  /\ BlockStep
  /\ creates > 0
  /\ blockId \in ServerIds \ UsedIds
  /\ creates' = creates - 1
  /\ Render(createBlockOk(store, blockId))
  /\ UNCHANGED <<loads, sends, deletes>>

\* createNewBlockHandler after api.createBlock rejected: local fallback
createBlockFailed(st, localId) ==
  LET s1 == createNewBlock(st, localId)
  IN setMessageHistory(s1, <<WelcomeMessage(s1)>>)

CreateBlockFail(localId) ==
  /\ BlockStep
  /\ creates > 0
  /\ localId \in LocalIds \ UsedIds
  /\ creates' = creates - 1
  /\ Render(createBlockFailed(store, localId))
  /\ UNCHANGED <<loads, sends, deletes>>

(* ------- the block chat (BlockChatInterface with history fetch) -------- *)
\* fetchMessages after api.getBlock resolved with n stored messages
fetchMessagesOk(st, blockId, n) ==
  LET s1 == IF n = 0
            THEN setMessageHistory(st, <<WelcomeMessage(st)>>)
            ELSE setMessageHistory(st, FormattedMessages(blockId, n))
      s2 == setBlockInfo(s1, [messageCount |-> n, type |-> "general",
                              blockId |-> blockId, created |-> "created_at"])
  IN setIsTyping(s2, FALSE)

FetchMessagesOk(blockId, n) ==
  /\ BlockStep
  /\ blockId \in fetches
  /\ fetches' = fetches \ {blockId}
  /\ store' = fetchMessagesOk(store, blockId, n)
  /\ UNCHANGED <<loads, creates, sends, deletes>>

\* fetchMessages after api.getBlock rejected: welcome message as fallback
fetchMessagesFailed(st) ==
  setIsTyping(setMessageHistory(st, <<WelcomeMessage(st)>>), FALSE)

FetchMessagesFail(blockId) ==
  /\ BlockStep
  /\ blockId \in fetches
  /\ fetches' = fetches \ {blockId}
  /\ store' = fetchMessagesFailed(store)
  /\ UNCHANGED <<loads, creates, sends, deletes>>

\* ChatInput: disabled={!currentBlockId || isTyping}
BlockInputDisabled(st) == st.currentBlockId = Null \/ st.isTyping

\* handleSendMessage up to the await: user message, typing indicator, request.
\* The request remembers the block it was sent in and the blockInfo.blockId
\* of the render it was sent from.
handleSendMessageStart(st) ==
  setIsTyping(
    addMessage(st, Message("user", "typed", NowISO, FALSE, st.currentBlockId)),
    TRUE)

HandleSendMessage ==
  /\ BlockStep
  /\ ~BlockInputDisabled(store)
  /\ store.userId # Null
  /\ Len(store.messageHistory) < MaxHistory
  /\ Cardinality(sends) < MaxPending
  /\ sends' = sends \cup
       {[of |-> store.currentBlockId, blockId |-> store.blockInfo.blockId]}
  /\ store' = handleSendMessageStart(store)
  /\ UNCHANGED <<loads, creates, fetches, deletes>>

\* handleSendMessage after the reply arrived.  kind: "string" for
\* {response: text}; "object" for a structured response, which may name the
\* backend block (block_id) and may carry a classification message
handleSendMessageOk(st, s, kind, block_id, classified) ==
  LET s1 == IF kind = "object" /\ classified
            THEN addMessage(st, Message("system", "classification", NowISO, FALSE, s.of))
            ELSE st
      s2 == IF kind = "object" /\ block_id # Null /\ s.blockId # block_id
            THEN setBlockInfo(s1, [blockId |-> block_id, type |-> "general"])
            ELSE s1
      s3 == addMessage(s2, Message("assistant", "response", NowISO, FALSE, s.of))
  IN setIsTyping(s3, FALSE)

SendReplyOk(s, kind, block_id, classified) ==
  /\ BlockStep
  /\ s \in sends
  /\ kind = "string" => (block_id = Null /\ ~classified)
  /\ Len(store.messageHistory) + (IF classified THEN 2 ELSE 1) <= MaxHistory
  /\ sends' = sends \ {s}
  /\ store' = handleSendMessageOk(store, s, kind, block_id, classified)
  /\ UNCHANGED <<loads, creates, fetches, deletes>>

\* a catch branch with no finally behind it
handleSendMessageFailed_NoFinally(st, s) ==
  addMessage(st, Message("system", "error", NowISO, TRUE, s.of))

\* handleSendMessage after the request failed: error message, finally
handleSendMessageFailed(st, s) ==
  setIsTyping(addMessage(st, Message("system", "error", NowISO, TRUE, s.of)), FALSE)

SendReplyFail(s) ==
  /\ BlockStep
  /\ s \in sends
  /\ Len(store.messageHistory) < MaxHistory
  /\ sends' = sends \ {s}
  /\ store' = handleSendMessageFailed(store, s)
  /\ UNCHANGED <<loads, creates, fetches, deletes>>

\* handleClearChat (confirmed): clearMessages(); the server call only logs
HandleClearChat ==
  /\ BlockStep
  /\ store.currentBlockId # Null
  /\ Len(store.messageHistory) > 0
  /\ store' = clearMessages(store)
  /\ UNCHANGED <<loads, creates, fetches, sends, deletes>>

(* --------------------- the block sidebar ------------------------------- *)
\* handleDeleteBlock (confirmed) up to the await
HandleDeleteBlock(blockId) ==
  /\ BlockStep
  /\ \E i \in 1..Len(store.blocks) : store.blocks[i].id = blockId
  /\ Cardinality(deletes \cup {blockId}) <= MaxPending
  /\ deletes' = deletes \cup {blockId}
  /\ UNCHANGED <<store, loads, creates, fetches, sends>>

\* api.deleteBlock resolved: removeBlock(blockId)
DeleteBlockOk(blockId) ==
  /\ BlockStep
  /\ blockId \in deletes
  /\ deletes' = deletes \ {blockId}
  /\ store' = removeBlock(store, blockId)
  /\ UNCHANGED <<loads, creates, fetches, sends>>

\* api.deleteBlock rejected: the error is logged
DeleteBlockFail(blockId) ==
  /\ BlockStep
  /\ blockId \in deletes
  /\ deletes' = deletes \ {blockId}
  /\ UNCHANGED <<store, loads, creates, fetches, sends>>

\* persist/partialize: userId and blocks are restored from local storage.
\* A first visit starts from the initial store, a later visit with the user
\* id and the block list of the visit before.
StoredBlocks == [i \in 1..MaxIds |-> [id |-> i, name |-> "stored"]]

InitBlock ==
  /\ page = "block"
  /\ store \in {InitialStore,
                [InitialStore EXCEPT !.userId = 1, !.blocks = StoredBlocks]}
  /\ loads = {}
  /\ creates = 0
  /\ fetches = {}
  /\ sends = {}
  /\ deletes = {}
  /\ ChatIdle
  /\ IdeaIdle
  /\ LegacyIdle
  /\ AuxIdle

NextBlock ==
  \/ InitializeUser
  \/ \E blockId \in ServerIds \cup {Null} : BlockPageEffect(blockId)
  \/ \E blockId \in ServerIds, n \in 0..MaxServerMsgs : LoadBlockOk(blockId, n)
  \/ \E blockId \in ServerIds : LoadBlockFail(blockId)
  \/ NewChat
  \/ \E blockId \in ServerIds : CreateBlockOk(blockId)
  \/ \E localId \in LocalIds : CreateBlockFail(localId)
  \/ \E blockId \in ServerIds \cup LocalIds, n \in 0..MaxServerMsgs :
       FetchMessagesOk(blockId, n)
  \/ \E blockId \in ServerIds \cup LocalIds : FetchMessagesFail(blockId)
  \/ HandleSendMessage
  \/ \E s \in sends, kind \in {"string", "object"},
        block_id \in ServerIds \cup {Null}, classified \in BOOLEAN :
       SendReplyOk(s, kind, block_id, classified)
  \/ \E s \in sends : SendReplyFail(s)
  \/ HandleClearChat
  \/ \E blockId \in ServerIds \cup LocalIds : HandleDeleteBlock(blockId)
  \/ \E blockId \in ServerIds \cup LocalIds : DeleteBlockOk(blockId)
  \/ \E blockId \in ServerIds \cup LocalIds : DeleteBlockFail(blockId)

SpecBlock == InitBlock /\ [][NextBlock]_vars

(* -------------------- properties of the block page --------------------- *)
\* C1: in every state of the block store the displayed message count,
\* blockInfo.messageCount, equals the length of messageHistory.
C1_Original == store.blockInfo.messageCount = Len(store.messageHistory)

\* C3: every message of the history belongs to the block that is current;
\* no reply or error of a send made in one block is in the history while
\* another block is current.
C3_Original ==
  \A i \in 1..Len(store.messageHistory) :
    store.messageHistory[i].of = store.currentBlockId

(* -------------------- deleting sessions and blocks ---------------------- *)
\* Either page, restricted to what brings a session or block to be current,
\* listed, busy or idle, and deleted.
InitDelete == InitChat \/ InitBlock

NextDelete ==
  \/ \E sessionId \in ServerIds, n \in 0..MaxServerMsgs : LoadSessionOk(sessionId, n)
  \/ \E session_id \in ServerIds : CreateSessionOk(session_id)
  \/ \E session \in [id : ServerIds, name : SessionNames] : NewSessionCreated(session)
  \/ SendMessage
  \/ \E sessionId \in ServerIds : DeleteSessionById(sessionId)
  \/ \E sessionId \in ServerIds : DeleteSessionOk(sessionId)
  \/ \E sessionId \in ServerIds : DeleteSessionFail(sessionId)
  \/ \E sessionId \in ServerIds : onSessionDeleted(sessionId)
  \/ \E sessionId \in ServerIds : RemoveSessionItem(sessionId)
  \/ InitializeUser
  \/ \E blockId \in ServerIds : BlockPageEffect(blockId)
  \/ \E blockId \in ServerIds, n \in 0..MaxServerMsgs : LoadBlockOk(blockId, n)
  \/ \E blockId \in ServerIds \cup LocalIds, n \in 0..MaxServerMsgs :
       FetchMessagesOk(blockId, n)
  \/ \E blockId \in ServerIds \cup LocalIds : HandleDeleteBlock(blockId)
  \/ \E blockId \in ServerIds \cup LocalIds : DeleteBlockOk(blockId)
  \/ \E blockId \in ServerIds \cup LocalIds : DeleteBlockFail(blockId)

SpecDelete == InitDelete /\ [][NextDelete]_vars

\* C4: when a deletion is confirmed (DELETE answered ok, or a session_deleted
\* push event), a deleted current session/block leaves no current id and a
\* disabled chat input; a deleted non-current one loses its list entry only:
\* the current id, the history and the input's enabled state stay as they were.
C4_DeleteConfirmed ==
  [][/\ \A sessionId \in ServerIds :
          (DeleteSessionOk(sessionId) \/ onSessionDeleted(sessionId)) =>
            /\ FilterOutId(sessionsList', sessionId) = FilterOutId(sessionsList, sessionId)
            /\ \A i \in 1..Len(sessionsList') :
                 sessionsList'[i].id = sessionId => sessionsList'[i].deleting
            /\ IF sessionId = chat.currentSessionId
                 THEN chat'.currentSessionId = Null /\ chat'.inputDisabled
                 ELSE chat' = chat
     /\ \A blockId \in ServerIds \cup LocalIds :
          DeleteBlockOk(blockId) =>
            /\ IndexOfId(store'.blocks, blockId) = 0
            /\ store'.blocks = FilterOutId(store.blocks, blockId)
            /\ IF blockId = store.currentBlockId
                 THEN store'.currentBlockId = Null /\ BlockInputDisabled(store')
                 ELSE store' = [store EXCEPT !.blocks = store'.blocks]]_vars

\* a current session with a history was deleted while the input was usable
C4_Witness ==
  /\ page = "chat"
  /\ chat.currentSessionId = Null
  /\ chat.inputDisabled
  /\ chat.messageCount = 0
  /\ Len(chat.messageHistory) > 0
  /\ chatSends = {}
  /\ \E i \in 1..Len(sessionsList) : sessionsList[i].deleting

(* -------------------- the three lists ----------------------------------- *)
\* The list operations called directly, with any entry and any id: the block
\* list of the block store, the session list of the session store, and the
\* session list in the DOM of the static page.
IdeaStep == page = "idea" /\ UNCHANGED <<page, blockVars, chatVars, legacyVars, auxVars>>

ListNames == {"New Idea Session", "renamed"}
ListEntries == [id : ServerIds, name : ListNames]

AddBlock(block) ==
  /\ BlockStep
  /\ store' = addBlock(store, block)
  /\ UNCHANGED <<loads, creates, fetches, sends, deletes>>

RemoveBlock(blockId) ==
  /\ BlockStep
  /\ store' = removeBlock(store, blockId)
  /\ UNCHANGED <<loads, creates, fetches, sends, deletes>>

AddSession(sess) ==
  /\ IdeaStep
  /\ sessionStore' = addSession(sessionStore, sess)
  /\ UNCHANGED ideaRest

RemoveSession(sessionId) ==
  /\ IdeaStep
  /\ sessionStore' = removeSession(sessionStore, sessionId)
  /\ UNCHANGED ideaRest

RECURSIVE AddAllToList(_, _)
AddAllToList(list, sessions) ==
  IF sessions = <<>> THEN list
  ELSE AddAllToList(addSessionToList(list, Head(sessions), FALSE), Tail(sessions))

\* updateSessionsList(sessions) with a non-empty list from the server: the
\* list is emptied and every session added at the bottom
UpdateSessionsList(sessions) ==
  /\ ChatStep
  /\ sessions # <<>>
  /\ sessionsList' = AddAllToList(<<>>, sessions)
  /\ UNCHANGED <<chat, chatLoads, chatCreates, chatSends, chatDeletes>>

InitList ==
  /\ page \in {"block", "idea", "chat"}
  /\ BlockIdle
  /\ ChatIdle
  /\ IdeaIdle
  /\ LegacyIdle
  /\ AuxIdle

NextList ==
  \/ \E block \in [id : ServerIds \cup LocalIds, name : ListNames] : AddBlock(block)
  \/ \E blockId \in ServerIds \cup LocalIds : RemoveBlock(blockId)
  \/ \E sess \in ListEntries : AddSession(sess)
  \/ \E sessionId \in ServerIds : RemoveSession(sessionId)
  \/ \E sess \in ListEntries : NewSessionCreated(sess)
  \/ \E s1 \in ListEntries, s2 \in ListEntries : UpdateSessionsList(<<s1, s2>>)
  \/ \E sessionId \in ServerIds : onSessionDeleted(sessionId)
  \/ \E sessionId \in ServerIds : RemoveSessionItem(sessionId)

SpecList == InitList /\ [][NextList]_vars

Ids(list) == [i \in 1..Len(list) |-> list[i].id]

UniqueIds(list) ==
  \A i \in 1..Len(list), j \in 1..Len(list) : list[i].id = list[j].id => i = j

\* C2: the ids of a list stay unique under the add and remove operations;
\* adding an id that is present replaces that entry where it stands (same
\* length, same ids at the same positions), and adding a new id as a "new"
\* entry puts it at the head, in front of the entries that were there.
C2_ListUnique ==
  [][/\ UniqueIds(store.blocks) => UniqueIds(store'.blocks)
     /\ UniqueIds(sessionStore.sessions) => UniqueIds(sessionStore'.sessions)
     /\ UniqueIds(sessionsList) => UniqueIds(sessionsList')
     /\ \A block \in [id : ServerIds \cup LocalIds, name : ListNames] :
          AddBlock(block) =>
            IF IndexOfId(store.blocks, block.id) # 0
              THEN /\ Ids(store'.blocks) = Ids(store.blocks)
                   /\ store'.blocks[IndexOfId(store.blocks, block.id)] = block
              ELSE store'.blocks = <<block>> \o store.blocks
     /\ \A sess \in ListEntries :
          AddSession(sess) =>
            IF IndexOfId(sessionStore.sessions, sess.id) # 0
              THEN /\ Ids(sessionStore'.sessions) = Ids(sessionStore.sessions)
                   /\ sessionStore'.sessions[IndexOfId(sessionStore.sessions, sess.id)] = sess
              ELSE sessionStore'.sessions = <<sess>> \o sessionStore.sessions
     /\ \A sess \in ListEntries :
          NewSessionCreated(sess) =>
            IF IndexOfId(sessionsList, sess.id) # 0
              THEN /\ Ids(sessionsList') = Ids(sessionsList)
                   /\ sessionsList'[IndexOfId(sessionsList, sess.id)].name = sess.name
              ELSE /\ Tail(sessionsList') = sessionsList
                   /\ Head(sessionsList').id = sess.id
                   /\ Head(sessionsList').name = sess.name]_vars

\* a list that holds every server id once, entries added under both names:
\* any further add is an add of an id that is present
C2_Witness ==
  \/ /\ Len(store.blocks) = MaxIds
     /\ UniqueIds(store.blocks)
     /\ store.blocks[1].name = "New Idea Session"
     /\ store.blocks[MaxIds].name = "renamed"
  \/ /\ Len(sessionsList) = MaxIds
     /\ UniqueIds(sessionsList)
     /\ sessionsList[1].name = "New Idea Session"
     /\ sessionsList[MaxIds].name = "renamed"

(* -------------------- the idea page (IdeaPage.js) ----------------------- *)
\* most EventSources one page makes
MaxStreams == 2
\* most chunks the streaming buffer holds
MaxChunks == 2

\* ids of sessions the page knows of; a new session's id is none of them
IdeaUsedIds ==
  ({sessionStore.currentSessionId, ideaUrl} \cup ideaLoads
     \cup {sessionStore.sessions[i].id : i \in 1..Len(sessionStore.sessions)})
  \ {Null}

\* updateURL(sessionId): router.push of /idea?session=...; the effect on
\* [searchParams] runs again when the parameter changed
UpdateURL(sessionId) ==
  /\ ideaUrl' = sessionId
  /\ ideaEffect' = (ideaEffect \/ ideaUrl # sessionId)

\* the effect on [searchParams]: the cleanup of the run before (resetStore),
\* then loadSession(sessionId) up to its fetch, or createNewSession()
IdeaPageEffect ==
  /\ IdeaStep
  /\ ideaEffect
  /\ ideaEffect' = FALSE
  /\ IF ideaUrl # Null
       THEN /\ Cardinality(ideaLoads \cup {ideaUrl}) <= MaxPending
            /\ sessionStore' = sessionSetIsTyping(sessionResetStore(sessionStore), TRUE)
            /\ ideaLoads' = ideaLoads \cup {ideaUrl}
            /\ UNCHANGED ideaCreates
       ELSE /\ ideaCreates < MaxPending
            /\ sessionStore' = sessionResetStore(sessionStore)
            /\ ideaCreates' = ideaCreates + 1
            /\ UNCHANGED ideaLoads
  /\ UNCHANGED <<streamingMessage, evtSource, streams, ideaUrl, sent, cancelled>>

\* SessionSidebar fetchSessions: the k sessions the server lists
FetchSessionsOk(k) ==
  /\ IdeaStep
  /\ sessionStore.sessions = <<>>
  /\ sessionStore' = setSessions(sessionStore,
                       [i \in 1..k |-> [id |-> i, name |-> "New Idea Session"]])
  /\ UNCHANGED ideaRest

\* handleSessionSelect: loadSession(sessionId) up to its fetch
HandleSessionSelect(sessionId) ==
  /\ IdeaStep
  /\ IndexOfId(sessionStore.sessions, sessionId) # 0
  /\ sessionId # sessionStore.currentSessionId
  /\ Cardinality(ideaLoads \cup {sessionId}) <= MaxPending
  /\ sessionStore' = sessionSetIsTyping(sessionStore, TRUE)
  /\ ideaLoads' = ideaLoads \cup {sessionId}
  /\ UNCHANGED <<streamingMessage, evtSource, streams, ideaCreates, ideaUrl,
                 ideaEffect, sent, cancelled>>

\* loadSession after the session arrived with n messages
ideaLoadOk(st, sessionId, n) ==
  LET s1 == setCurrentSessionId(st, sessionId)
      s2 == setSessionInfo(s1, [created |-> "created_at", messageCount |-> n,
                                type |-> "idea"])
      s3 == sessionSetMessageHistory(s2, SessionMessages(sessionId, n))
  IN sessionSetIsTyping(s3, FALSE)

IdeaLoadOk(sessionId, n) ==
  /\ IdeaStep
  /\ sessionId \in ideaLoads
  /\ ideaLoads' = ideaLoads \ {sessionId}
  /\ sessionStore' = ideaLoadOk(sessionStore, sessionId, n)
  /\ UpdateURL(sessionId)
  /\ UNCHANGED <<streamingMessage, evtSource, streams, ideaCreates, sent, cancelled>>

\* loadSession, reply not ok or no reply: logged, createNewSession(), finally
ideaLoadFailed(st) == sessionSetIsTyping(st, FALSE)

IdeaLoadFail(sessionId) ==
  /\ IdeaStep
  /\ sessionId \in ideaLoads
  /\ ideaCreates < MaxPending
  /\ ideaLoads' = ideaLoads \ {sessionId}
  /\ ideaCreates' = ideaCreates + 1
  /\ sessionStore' = ideaLoadFailed(sessionStore)
  /\ UNCHANGED <<streamingMessage, evtSource, streams, ideaUrl, ideaEffect,
                 sent, cancelled>>

\* the header's New Chat button: createNewSession
IdeaNewChat ==
  /\ IdeaStep
  /\ ideaCreates < MaxPending
  /\ ideaCreates' = ideaCreates + 1
  /\ UNCHANGED <<sessionStore, streamingMessage, evtSource, streams, ideaLoads,
                 ideaUrl, ideaEffect, sent, cancelled>>

\* createNewSession after the new session arrived
ideaCreateOk(st, session_id) ==
  LET s1 == setCurrentSessionId(st, session_id)
      s2 == sessionSetMessageHistory(s1, <<>>)
      s3 == setSessionInfo(s2, [created |-> "created_at", messageCount |-> 0,
                                type |-> "idea"])
  IN sessionSetMessageHistory(s3,
       <<Message("system", "welcome", NowISO, FALSE, session_id)>>)

IdeaCreateOk(session_id) ==
  /\ IdeaStep
  /\ ideaCreates > 0
  /\ session_id \in ServerIds \ IdeaUsedIds
  /\ ideaCreates' = ideaCreates - 1
  /\ sessionStore' = ideaCreateOk(sessionStore, session_id)
  /\ UpdateURL(session_id)
  /\ UNCHANGED <<streamingMessage, evtSource, streams, ideaLoads, sent, cancelled>>

\* createNewSession, reply not ok or no reply: logged
IdeaCreateFail ==
  /\ IdeaStep
  /\ ideaCreates > 0
  /\ ideaCreates' = ideaCreates - 1
  /\ UNCHANGED <<sessionStore, streamingMessage, evtSource, streams, ideaLoads,
                 ideaUrl, ideaEffect, sent, cancelled>>

(* ----------- the streamed chat (ChatInterface.js, the store) ------------ *)
\* The store's streaming operations are not in the sources at hand; they are
\* taken from the description: chunks are concatenated into one pending
\* buffer, which is committed to the history as one assistant message when
\* the stream ends.  Each works on the store and the buffer together.
WithStream(st, sm) == [st |-> st, sm |-> sm]

startStreaming(w) == WithStream(sessionSetIsTyping(w.st, TRUE), "")

appendToStream(w, chunk) == WithStream(w.st, w.sm \o chunk)

endStreaming(w) ==
  LET st == sessionSetIsTyping(w.st, FALSE)
  IN IF w.sm # ""
       THEN WithStream(sessionAddMessage(st,
              Message("assistant", w.sm, NowISO, FALSE, st.currentSessionId)), "")
       ELSE WithStream(st, "")

\* a chunk of EventSource number s
Chunk(s) == ToString(s)

\* ChatInput is disabled without a session and while isTyping
IdeaInputDisabled ==
  sessionStore.currentSessionId = Null \/ sessionStore.isTyping

\* handleSendMessage without the closing of the existing event source
handleSendMessage_KeepOpen ==
  /\ IdeaStep
  /\ ~IdeaInputDisabled
  /\ sent < MaxStreams
  /\ Len(sessionStore.messageHistory) < MaxHistory
  /\ LET userMessage == Message("user", "typed", NowISO, FALSE,
                                sessionStore.currentSessionId)
         w == startStreaming(WithStream(
                sessionAddMessage(sessionStore, userMessage), streamingMessage))
     IN /\ sessionStore' = w.st
        /\ streamingMessage' = w.sm
  /\ sent' = sent + 1
  /\ evtSource' = sent + 1
  /\ streams' = streams \cup {sent + 1}
  /\ UNCHANGED <<cancelled, ideaLoads, ideaCreates, ideaUrl, ideaEffect>>

\* handleSendMessage: the user message, startStreaming(), the existing event
\* source closed, a new EventSource made
handleSendMessage ==
  /\ IdeaStep
  /\ ~IdeaInputDisabled
  /\ sent < MaxStreams
  /\ Len(sessionStore.messageHistory) < MaxHistory
  /\ LET userMessage == Message("user", "typed", NowISO, FALSE,
                                sessionStore.currentSessionId)
         w == startStreaming(WithStream(
                sessionAddMessage(sessionStore, userMessage), streamingMessage))
     IN /\ sessionStore' = w.st
        /\ streamingMessage' = w.sm
  /\ sent' = sent + 1
  /\ evtSource' = sent + 1
  /\ streams' = (streams \ {evtSource}) \cup {sent + 1}
  /\ cancelled' = cancelled \cup (streams \cap {evtSource})
  /\ UNCHANGED <<ideaLoads, ideaCreates, ideaUrl, ideaEffect>>

\* onmessage of the open EventSource s with a chunk
StreamChunk(s) ==
  /\ IdeaStep
  /\ s \in streams
  /\ Len(streamingMessage) < MaxChunks
  /\ LET w == appendToStream(WithStream(sessionStore, streamingMessage), Chunk(s))
     IN /\ sessionStore' = w.st
        /\ streamingMessage' = w.sm
  /\ UNCHANGED <<evtSource, streams, ideaLoads, ideaCreates, ideaUrl,
                 ideaEffect, sent, cancelled>>

\* onmessage of the open EventSource s with [DONE]: endStreaming(), the
\* current event source closed and forgotten; s has ended
StreamDone(s) ==
  /\ IdeaStep
  /\ s \in streams
  /\ Len(sessionStore.messageHistory) < MaxHistory
  /\ LET w == endStreaming(WithStream(sessionStore, streamingMessage))
     IN /\ sessionStore' = w.st
        /\ streamingMessage' = w.sm
  /\ streams' = streams \ {s, evtSource}
  /\ evtSource' = Null
  /\ UNCHANGED <<ideaLoads, ideaCreates, ideaUrl, ideaEffect, sent, cancelled>>

\* onerror of the open EventSource s: endStreaming(), the current event
\* source closed and forgotten, an error message added
StreamError(s) ==
  /\ IdeaStep
  /\ s \in streams
  /\ Len(sessionStore.messageHistory) + 1 < MaxHistory
  /\ LET w == endStreaming(WithStream(sessionStore, streamingMessage))
     IN /\ sessionStore' = sessionAddMessage(w.st,
             Message("system", "error", NowISO, TRUE, w.st.currentSessionId))
        /\ streamingMessage' = w.sm
  /\ streams' = streams \ {s, evtSource}
  /\ evtSource' = Null
  /\ UNCHANGED <<ideaLoads, ideaCreates, ideaUrl, ideaEffect, sent, cancelled>>

\* the page opens at /idea or at /idea?session=...
InitIdea ==
  /\ page = "idea"
  /\ sessionStore = InitialSession
  /\ streamingMessage = ""
  /\ evtSource = Null
  /\ streams = {}
  /\ ideaLoads = {}
  /\ ideaCreates = 0
  /\ ideaUrl \in ServerIds \cup {Null}
  /\ ideaEffect = TRUE
  /\ sent = 0
  /\ cancelled = {}
  /\ BlockIdle
  /\ ChatIdle
  /\ LegacyIdle
  /\ AuxIdle

\* the streamed chat of a page opened on a session that exists: sessions are
\* loaded and switched, none is created
InitStream == InitIdea /\ ideaUrl # Null

NextStream ==
  \/ IdeaPageEffect
  \/ \E k \in 1..MaxIds : FetchSessionsOk(k)
  \/ \E sessionId \in ServerIds : HandleSessionSelect(sessionId)
  \/ \E sessionId \in ServerIds, n \in 0..MaxServerMsgs : IdeaLoadOk(sessionId, n)
  \/ handleSendMessage
  \/ \E s \in 1..MaxStreams : StreamChunk(s)
  \/ \E s \in 1..MaxStreams : StreamDone(s)
  \/ \E s \in 1..MaxStreams : StreamError(s)

SpecStream == InitStream /\ [][NextStream]_vars

(* -------------------- properties of the streamed chat ------------------ *)
RECURSIVE Rep(_, _)
Rep(str, n) == IF n = 0 THEN "" ELSE str \o Rep(str, n - 1)

\* the texts made of chunks of EventSource number s alone
OnlyOf(s) == {Rep(Chunk(s), n) : n \in 0..MaxChunks}

InitFallback == InitChat \/ InitBlock \/ InitIdea

NextFallback ==
  \/ \E sessionId \in ServerIds, n \in 0..MaxServerMsgs : LoadSessionOk(sessionId, n)
  \/ \E sessionId \in ServerIds : LoadSessionFail(sessionId)
  \/ \E session_id \in ServerIds : CreateSessionOk(session_id)
  \/ CreateSessionNoId
  \/ CreateSessionFail
  \/ InitializeUser
  \/ \E blockId \in ServerIds \cup {Null} : BlockPageEffect(blockId)
  \/ \E blockId \in ServerIds, n \in 0..MaxServerMsgs : LoadBlockOk(blockId, n)
  \/ \E blockId \in ServerIds : LoadBlockFail(blockId)
  \/ \E blockId \in ServerIds : CreateBlockOk(blockId)
  \/ \E localId \in LocalIds : CreateBlockFail(localId)
  \/ \E blockId \in ServerIds \cup LocalIds, n \in 0..MaxServerMsgs :
       FetchMessagesOk(blockId, n)
  \/ \E blockId \in ServerIds \cup LocalIds : FetchMessagesFail(blockId)
  \/ IdeaPageEffect
  \/ \E sessionId \in ServerIds, n \in 0..MaxServerMsgs : IdeaLoadOk(sessionId, n)
  \/ \E sessionId \in ServerIds : IdeaLoadFail(sessionId)
  \/ \E session_id \in ServerIds : IdeaCreateOk(session_id)
  \/ IdeaCreateFail

SpecFallback == InitFallback /\ [][NextFallback]_vars

MAX_RECONNECT_ATTEMPTS == 5
\* most reconnect timers waiting at once
MaxTimers == 6
\* most sockets one page makes
MaxSockets == 3
\* most messages one catch-up reply holds
MaxBatch == 2

\* the legacy script works on its own globals: `chat` holds its
\* currentSessionId, messageHistory and message count display
SocketStep ==
  /\ page = "legacy"
  /\ UNCHANGED <<page, blockVars, ideaVars, chatVars, catchUps, dropped, auxVars>>

\* socket.on("connect"): logged, the counter starts again
SocketConnect(i) ==
  /\ SocketStep
  /\ i \in 1..Len(sockets)
  /\ sockets[i] # "connected"
  /\ sockets' = [sockets EXCEPT ![i] = "connected"]
  /\ reconnectAttempts' = 0
  /\ UNCHANGED <<timers, reachedMax>>

\* socket.on("disconnect"): logged
SocketDisconnect(i) ==
  /\ SocketStep
  /\ i \in 1..Len(sockets)
  /\ sockets[i] = "connected"
  /\ sockets' = [sockets EXCEPT ![i] = "disconnected"]
  /\ UNCHANGED <<reconnectAttempts, timers, reachedMax>>

\* attemptReconnect that lets the attempt at the maximum through as well
attemptReconnect_Inclusive(attempts) ==
  IF attempts <= MAX_RECONNECT_ATTEMPTS
    THEN [attempts |-> attempts + 1, scheduled |-> 1]
    ELSE [attempts |-> attempts, scheduled |-> 0]

\* attemptReconnect: below the maximum the counter goes up and a timer for
\* initializeSocket is set; at the maximum it only logs
attemptReconnect(attempts) ==
  IF attempts < MAX_RECONNECT_ATTEMPTS
    THEN [attempts |-> attempts + 1, scheduled |-> 1]
    ELSE [attempts |-> attempts, scheduled |-> 0]

\* socket.on("error"): logged, attemptReconnect()
SocketError(i) ==
  /\ SocketStep
  /\ i \in 1..Len(sockets)
  /\ LET r == attemptReconnect(reconnectAttempts)
     IN /\ timers + r.scheduled <= MaxTimers
        /\ reconnectAttempts' = r.attempts
        /\ timers' = timers + r.scheduled
        /\ reachedMax' = (reachedMax \/ r.attempts >= MAX_RECONNECT_ATTEMPTS)
  /\ UNCHANGED sockets

\* a reconnect timer fires: initializeSocket() makes a new socket with its
\* own handlers; the sockets made before are not closed
ReconnectTimer ==
  /\ SocketStep
  /\ timers > 0
  /\ Len(sockets) < MaxSockets
  /\ timers' = timers - 1
  /\ sockets' = Append(sockets, "connecting")
  /\ UNCHANGED <<reconnectAttempts, reachedMax>>

\* DOMContentLoaded: initializeSocket(), then initializeSession() with the
\* session of the URL (its load is not followed here)
InitLegacy ==
  /\ page = "legacy"
  /\ chat = [InitialChat EXCEPT !.currentSessionId = 1]
  /\ sessionsList = <<>>
  /\ chatLoads = {}
  /\ chatCreates = 0
  /\ chatSends = {}
  /\ chatDeletes = {}
  /\ reconnectAttempts = 0
  /\ timers = 0
  /\ sockets = <<"connecting">>
  /\ reachedMax = FALSE
  /\ catchUps = 0
  /\ dropped = FALSE
  /\ BlockIdle
  /\ IdeaIdle
  /\ AuxIdle

NextSocket ==
  \/ \E i \in 1..MaxSockets : SocketConnect(i)
  \/ \E i \in 1..MaxSockets : SocketDisconnect(i)
  \/ \E i \in 1..MaxSockets : SocketError(i)
  \/ ReconnectTimer

SpecSocket == InitLegacy /\ [][NextSocket]_vars

MergeStep ==
  /\ page = "legacy"
  /\ UNCHANGED <<page, blockVars, ideaVars, sessionsList, chatLoads, chatCreates,
                 chatSends, chatDeletes, reconnectAttempts, timers, sockets,
                 reachedMax, auxVars>>

\* m.timestamp === msg.timestamp && m.content === msg.content &&
\* m.role === msg.role
SameMessage(m, msg) ==
  m.timestamp = msg.timestamp /\ m.content = msg.content /\ m.role = msg.role

\* messageHistory.some(...)
Exists(history, msg) == \E i \in 1..Len(history) : SameMessage(history[i], msg)

\* a merge that looks for a fetched message only among the messages the
\* history held before the reply
mergeMessages_AgainstOld(history, messages) ==
  history \o SelectSeq(messages, LAMBDA msg : ~Exists(history, msg))

\* data.messages.forEach: a message is pushed unless the history, with what
\* this loop pushed before, holds one of its role, content and timestamp
RECURSIVE mergeMessages(_, _)
mergeMessages(history, messages) ==
  IF messages = <<>> THEN history
  ELSE mergeMessages(IF Exists(history, Head(messages))
                       THEN history
                       ELSE Append(history, Head(messages)),
                     Tail(messages))

\* messages the server may hold for the session: one, and those that differ
\* from it in the role, in the content or in the timestamp alone
FetchedMessages ==
  {Message("user", "stored", "created_at", FALSE, 1),
   Message("assistant", "stored", "created_at", FALSE, 1),
   Message("user", "new", "created_at", FALSE, 1),
   Message("user", "stored", "later", FALSE, 1)}

Batches == UNION {[1..n -> FetchedMessages] : n \in 0..MaxBatch}

\* visibilitychange to visible with a current session: the fetch is sent
VisibilityChange ==
  /\ MergeStep
  /\ chat.currentSessionId # Null
  /\ catchUps < MaxPending
  /\ catchUps' = catchUps + 1
  /\ UNCHANGED <<chat, dropped>>

\* the reply with data.messages: merged into messageHistory, and the count
\* display updated when the reply held any message
MergeOk(messages) ==
  /\ MergeStep
  /\ catchUps > 0
  /\ Len(chat.messageHistory) + Len(messages) <= MaxHistory
  /\ catchUps' = catchUps - 1
  /\ LET merged == mergeMessages(chat.messageHistory, messages)
     IN /\ chat' = IF Len(messages) > 0
                     THEN updateMessageCount([chat EXCEPT !.messageHistory = merged])
                     ELSE chat
        /\ dropped' = (dropped \/ Len(merged) < Len(chat.messageHistory) + Len(messages))

\* no reply, or one that is not JSON: logged
MergeFail ==
  /\ MergeStep
  /\ catchUps > 0
  /\ catchUps' = catchUps - 1
  /\ UNCHANGED <<chat, dropped>>

NextMerge ==
  \/ VisibilityChange
  \/ \E messages \in Batches : MergeOk(messages)
  \/ MergeFail

SpecMerge == InitLegacy /\ [][NextMerge]_vars

(* -------------------- properties of the catch-up ----------------------- *)
\* how many entries of history equal msg in role, content and timestamp
Occurrences(history, msg) ==
  Cardinality({i \in 1..Len(history) : SameMessage(history[i], msg)})

\* C8: a catch-up merge keeps the history it found as the beginning of the
\* new one and appends fetched messages only; a fetched message equal in
\* role, content and timestamp to one the history held is not appended, and
\* any other fetched message is in the new history exactly once, however
\* often the reply held it.
C8_MergeDeduplicates ==
  [][\A messages \in Batches :
       MergeOk(messages) =>
         LET old == chat.messageHistory
             new == chat'.messageHistory
         IN /\ Len(new) >= Len(old)
            /\ SubSeq(new, 1, Len(old)) = old
            /\ \A i \in (Len(old) + 1)..Len(new) :
                 \E j \in 1..Len(messages) : new[i] = messages[j]
            /\ \A j \in 1..Len(messages) :
                 Occurrences(new, messages[j]) =
                   IF Exists(old, messages[j])
                     THEN Occurrences(old, messages[j]) ELSE 1
            /\ chat'.messageCount =
                 IF Len(messages) > 0 THEN Len(new) ELSE chat.messageCount]_vars

\* a merge has dropped a fetched message and the history holds messages
\* that differ in one field only, each once
C8_Witness ==
  /\ dropped
  /\ Len(chat.messageHistory) = 3
  /\ \A i, j \in 1..3 :
       i # j => ~SameMessage(chat.messageHistory[i], chat.messageHistory[j])
  /\ chat.messageHistory[1].role = chat.messageHistory[2].role
  /\ chat.messageHistory[1].content = chat.messageHistory[2].content
  /\ chat.messageHistory[1].timestamp # chat.messageHistory[2].timestamp

(* ------------- addMessage and the displayed message count -------------- *)
\* the messages the pages hand to addMessage
AddedMessages ==
  {Message(role, "text", NowISO, error, Null) :
     role \in {"user", "assistant"}, error \in BOOLEAN}

\* useChatStore.getState().addMessage(message)
StoreAddMessage(message) ==
  /\ BlockStep
  /\ Len(store.messageHistory) < MaxHistory
  /\ store' = addMessage(store, message)
  /\ UNCHANGED <<loads, creates, fetches, sends, deletes>>

\* the session store's addMessage(message)
SessionAddMessage(message) ==
  /\ IdeaStep
  /\ Len(sessionStore.messageHistory) < MaxHistory
  /\ sessionStore.sessionInfo.messageCount < MaxHistory
  /\ sessionStore' = sessionAddMessage(sessionStore, message)
  /\ UNCHANGED ideaRest

InitStores ==
  /\ page \in {"block", "idea"}
  /\ BlockIdle
  /\ ChatIdle
  /\ IdeaIdle
  /\ LegacyIdle
  /\ AuxIdle

NextAddMessage ==
  \/ \E message \in AddedMessages : StoreAddMessage(message)
  \/ \E message \in AddedMessages : SessionAddMessage(message)

SpecAddMessage == InitStores /\ [][NextAddMessage]_vars

\* C11: from the initial store state, after each call of a sequence of
\* addMessage calls the message count equals the length of the message
\* history, in the block store and in the session store.
C11_CountIsLength ==
  /\ store.blockInfo.messageCount = Len(store.messageHistory)
  /\ sessionStore.sessionInfo.messageCount = Len(sessionStore.messageHistory)

\* several addMessage calls have been made on a store
C11_Witness ==
  \/ page = "block" /\ Len(store.messageHistory) >= 2
                    /\ store.blockInfo.messageCount >= 2
  \/ page = "idea" /\ Len(sessionStore.messageHistory) >= 2
                   /\ sessionStore.sessionInfo.messageCount >= 2

(* ---------------- setMessageHistory and the timestamps ----------------- *)
\* messages as a server or a caller passes them: the timestamp may be
\* missing ("none"), and an explicit one may be any string
PassedMessages ==
  {Message(role, "text", timestamp, FALSE, Null) :
     role \in {"user", "assistant"}, timestamp \in {"none", "t1", "t2"}}

\* the lists of at most n elements of S
ListsUpTo(S, n) == UNION {[1..k -> S] : k \in 0..n}

\* useChatStore.getState().setMessageHistory(callArg)
StoreSetMessageHistory ==
  /\ BlockStep
  /\ store.messageHistory = <<>>
  /\ store' = setMessageHistory(store, callArg)
  /\ UNCHANGED <<loads, creates, fetches, sends, deletes>>

\* setMessageHistory(messageHistory): the stored history is passed again
StoreSetStoredHistory ==
  /\ BlockStep
  /\ store.messageHistory # <<>>
  /\ store' = setMessageHistory(store, store.messageHistory)
  /\ UNCHANGED <<loads, creates, fetches, sends, deletes>>

InitSetHistory ==
  /\ page = "block"
  /\ BlockIdle
  /\ ChatIdle
  /\ IdeaIdle
  /\ LegacyIdle
  /\ exported = <<>>
  /\ analystResults = <<>>
  /\ analystResultsIndex = <<>>
  /\ callArg \in ListsUpTo(PassedMessages, MaxHistory)

NextSetHistory == StoreSetMessageHistory \/ StoreSetStoredHistory

SpecSetHistory == InitSetHistory /\ [][NextSetHistory]_vars

\* message `stored` is message `passed` with its timestamp settled
Normalised(passed, stored) ==
  /\ stored.role = passed.role
  /\ stored.content = passed.content
  /\ stored.error = passed.error
  /\ stored.timestamp # "none"
  /\ passed.timestamp # "none" => stored.timestamp = passed.timestamp

\* C12: setMessageHistory(messages) stores the same messages in the same
\* order, each with a timestamp: an explicit timestamp is kept as it is, a
\* missing one is assigned; setting the stored history again changes nothing.
C12_SetHistoryNormalises ==
  [][/\ StoreSetMessageHistory =>
          /\ Len(store'.messageHistory) = Len(callArg)
          /\ \A i \in 1..Len(callArg) :
                Normalised(callArg[i], store'.messageHistory[i])
          /\ setMessageHistory(store', store'.messageHistory) = store'
     /\ StoreSetStoredHistory => store' = store]_vars

\* a list mixing a message without a timestamp and one with an explicit
\* timestamp has been stored
C12_Witness ==
  /\ Len(callArg) >= 2
  /\ callArg[1].timestamp = "none"
  /\ callArg[2].timestamp = "t1"
  /\ Len(store.messageHistory) = Len(callArg)
  /\ store.messageHistory[1].timestamp = NowISO
  /\ store.messageHistory[2].timestamp = "t1"

(* ------------------- the stores, called in any order ------------------- *)
MaxLogs == 2

StoreInitializeUser ==
  /\ BlockStep
  /\ \E uuid \in Uuids : store' = initializeUser(store, uuid)
  /\ UNCHANGED <<loads, creates, fetches, sends, deletes>>

\* store' is the result of one of the other actions of useChatStore
StoreCall ==
  \/ \E blockId \in ServerIds : store' = setCurrentBlockId(store, blockId)
  \/ store' = setBlocks(store, StoredBlocks)
  \/ store' = setMessageHistory(store, <<Message("user", "text", "none", FALSE, Null)>>)
  \/ store' = clearMessages(store)
  \/ store' = setBlockInfo(store, [created |-> NowISO])
  \/ \E status \in BOOLEAN : store' = setIsTyping(store, status)
  \/ Len(store.logs) < MaxLogs /\ store' = addLog(store, "info")
  \/ \E blockId \in LocalIds : store' = createNewBlock(store, blockId)

StoreAction ==
  /\ BlockStep
  /\ StoreCall
  /\ UNCHANGED <<loads, creates, fetches, sends, deletes>>

StoreResetStore ==
  /\ BlockStep
  /\ store' = resetStore(store)
  /\ UNCHANGED <<loads, creates, fetches, sends, deletes>>

\* the page is loaded again: the store is made anew and persist lays
\* what it had written to local storage over it
Reload ==
  /\ BlockStep
  /\ store' = rehydrate(partialize(store))
  /\ UNCHANGED <<loads, creates, fetches, sends, deletes>>

\* store' is the result of one of the other actions of the session store
SessionCall ==
  \/ \E sessionId \in ServerIds :
        sessionStore' = setCurrentSessionId(sessionStore, sessionId)
  \/ \E status \in BOOLEAN : sessionStore' = sessionSetIsTyping(sessionStore, status)
  \/ sessionStore' = setSessionInfo(sessionStore, [created |-> NowISO])

SessionAction ==
  /\ IdeaStep
  /\ SessionCall
  /\ UNCHANGED ideaRest

SessionResetStore ==
  /\ IdeaStep
  /\ sessionStore' = sessionResetStore(sessionStore)
  /\ UNCHANGED ideaRest

NextStore ==
  \/ StoreInitializeUser
  \/ StoreAction
  \/ StoreAddMessage(Message("user", "text", NowISO, FALSE, Null))
  \/ \E blockId \in ServerIds \cup LocalIds : RemoveBlock(blockId)
  \/ StoreResetStore
  \/ Reload
  \/ SessionAction
  \/ SessionAddMessage(Message("user", "text", NowISO, FALSE, Null))
  \/ \E sess \in ListEntries : AddSession(sess)
  \/ \E sessionId \in ServerIds : RemoveSession(sessionId)
  \/ SessionResetStore

SpecStore == InitStores /\ [][NextStore]_vars

\* C14: once initializeUser has assigned a user id, a later initializeUser
\* leaves (and so returns) that id, and no other store action, resetStore,
\* createNewBlock, removeBlock and the reload included, changes or clears it.
C14_UserIdStable ==
  [][store.userId # Null => store'.userId = store.userId]_vars

\* a user id is assigned, and a block was made with createNewBlock (which
\* calls resetStore) and a message added to its history
C14_Witness ==
  /\ store.userId # Null
  /\ store.currentBlockId \in LocalIds
  /\ store.messageHistory # <<>>

\* C15: resetStore leaves no current block/session, an empty history, the
\* typing flag off and the block/session info at its defaults (count 0),
\* and leaves the user id and the block/session list as they were.
C15_ResetFrame ==
  [][/\ StoreResetStore =>
          /\ store'.currentBlockId = Null
          /\ store'.messageHistory = <<>>
          /\ store'.isTyping = FALSE
          /\ store'.blockInfo = DefaultBlockInfo
          /\ store'.blockInfo.messageCount = 0
          /\ store'.userId = store.userId
          /\ store'.blocks = store.blocks
     /\ SessionResetStore =>
          /\ sessionStore'.currentSessionId = Null
          /\ sessionStore'.messageHistory = <<>>
          /\ sessionStore'.isTyping = FALSE
          /\ sessionStore'.sessionInfo = DefaultSessionInfo
          /\ sessionStore'.sessionInfo.messageCount = 0
          /\ sessionStore'.sessions = sessionStore.sessions]_vars

\* a store in the state resetStore leaves, with a user and a list of two
C15_Witness ==
  \/ /\ store.userId # Null
     /\ Len(store.blocks) >= 2
     /\ resetStore(store) = store
  \/ /\ Len(sessionStore.sessions) >= 2
     /\ sessionResetStore(sessionStore) = sessionStore

MaxExports == 1

\* the document a.click() downloads: JSON.stringify(exportData)
ExportData(session_id, messages) ==
  [kind |-> "file", session_id |-> session_id, messages |-> messages,
   type |-> "idea_development"]

\* alert("No messages to export")
Refused == [kind |-> "alert"]

\* the TypeError of null.substring, thrown out of the click handler
Thrown == [kind |-> "TypeError"]

\* chat.js exportChat: an empty history is refused with an alert; with no
\* session current, currentSessionId.substring throws a TypeError before
\* the link is clicked and nothing is downloaded
ExportChat ==
  /\ page = "chat"
  /\ Len(exported) < MaxExports
  /\ exported' =
       Append1(exported,
               IF chat.messageHistory = <<>> THEN Refused
               ELSE IF chat.currentSessionId = Null THEN Thrown
               ELSE ExportData(chat.currentSessionId, chat.messageHistory))
  /\ UNCHANGED <<page, blockVars, chatVars, ideaVars, legacyVars,
                 analystResults, analystResultsIndex, callArg>>

\* ChatInterface handleExportChat: refused with an alert when no session
\* is current or the history is empty
HandleExportChat ==
  /\ page = "idea"
  /\ Len(exported) < MaxExports
  /\ exported' =
       Append1(exported,
               IF sessionStore.currentSessionId = Null
                  \/ sessionStore.messageHistory = <<>>
               THEN Refused
               ELSE ExportData(sessionStore.currentSessionId,
                               sessionStore.messageHistory))
  /\ UNCHANGED <<page, blockVars, chatVars, ideaVars, legacyVars,
                 analystResults, analystResultsIndex, callArg>>

InitExport == InitChat \/ InitStream

NextExport ==
  \/ \E sessionId \in ServerIds, n \in 0..MaxServerMsgs : LoadSessionOk(sessionId, n)
  \/ \E session_id \in ServerIds : CreateSessionOk(session_id)
  \/ \E session \in [id : ServerIds, name : SessionNames] : NewSessionCreated(session)
  \/ SendMessage
  \/ \E sessionId \in ServerIds : DeleteSessionById(sessionId)
  \/ \E sessionId \in ServerIds : DeleteSessionOk(sessionId)
  \/ ExportChat
  \/ IdeaPageEffect
  \/ \E sessionId \in ServerIds, n \in 0..MaxServerMsgs : IdeaLoadOk(sessionId, n)
  \/ HandleExportChat

SpecExport == InitExport /\ [][NextExport]_vars

\* the export made in this step downloaded a document with `messages`
Downloaded(messages) ==
  /\ exported'[Len(exported')].kind = "file"
  /\ exported'[Len(exported')].messages = messages

\* the export made in this step was refused and downloaded nothing
NoFile == exported'[Len(exported')].kind = "alert"

\* C13 as stated: an export with an empty history produces no file; an
\* export with N >= 1 messages produces a document whose messages are the
\* current history, and leaves the history and the current session id.
C13_Original ==
  [][/\ ExportChat =>
          /\ chat' = chat
          /\ IF chat.messageHistory = <<>>
               THEN NoFile
               ELSE Downloaded(chat.messageHistory)
     /\ HandleExportChat =>
          /\ sessionStore' = sessionStore
          /\ IF sessionStore.messageHistory = <<>>
               THEN NoFile
               ELSE Downloaded(sessionStore.messageHistory)]_vars

(* ------------------- push events of another session ------------------- *)
\* the step handles a chat_response, typing_indicator or session_update
\* event that carries session_id
SessionEvent(session_id) ==
  \/ \E data \in Responses : data.of = session_id /\ ChatResponse(data)
  \/ \E is_typing \in BOOLEAN : TypingIndicator(session_id, is_typing)
  \/ SessionUpdate(session_id)

\* C17 as stated: a chat_response, typing_indicator or session_update event
\* whose session id is not the open session changes neither the message
\* history, the typing flag nor the session info.
C17_Original ==
  [][\A session_id \in ServerIds :
       (session_id # chat.currentSessionId /\ SessionEvent(session_id)) =>
          /\ chat'.messageHistory = chat.messageHistory
          /\ chat'.isTyping = chat.isTyping
          /\ chat'.messageCount = chat.messageCount]_vars

(* ------------------ deleting an id the server lacks -------------------- *)
\* C18 as stated: when the server answers a delete with `no such id` (a
\* response that is not ok), the client ends in the local state a successful
\* delete leaves: the entry removed, the current id cleared if it was that.
C18_Original ==
  [][/\ \A sessionId \in ServerIds :
          DeleteSessionFail(sessionId) =>
            /\ sessionsList' = MarkDeleting(sessionsList, sessionId)
            /\ chat' = IF sessionId = chat.currentSessionId
                          THEN SessionGone(chat) ELSE chat
     /\ \A blockId \in ServerIds \cup LocalIds :
          DeleteBlockFail(blockId) => store' = removeBlock(store, blockId)]_vars

(* --------------- analyst results kept in local storage ----------------- *)
\* if (indexData.length > 20) indexData = indexData.slice(-20)
IndexLimit == 20

MaxResults == 21

\* the analyst script works on analystResults and local storage only
AnalystStep ==
  /\ page = "analyst"
  /\ UNCHANGED <<page, blockVars, chatVars, ideaVars, legacyVars, exported, callArg>>

\* s.slice(-n)
SliceLast(s, n) == IF Len(s) > n THEN SubSeq(s, Len(s) - n + 1, Len(s)) ELSE s

\* the index entry of a result: its id and prompt (timestamp, date and
\* trendsCount are carried along with them)
IndexEntry(result) == [id |-> result.id, prompt |-> result.prompt]

\* "analyst-" + Date.now(), with the prompt taken from the data
SavedEntry == [id |-> "analyst-now", prompt |-> "Analyst query"]

\* saveAnalystResultToLocalStorage(data): the value analystResultsIndex has
\* afterwards. With data one entry is pushed and the last 20 are kept;
\* without data the whole analystResults array is written.
saveAnalystResultToLocalStorage(hasData, results, index) ==
  IF hasData
  THEN SliceLast(Append1(index, SavedEntry), IndexLimit)
  ELSE [i \in 1..Len(results) |-> IndexEntry(results[i])]

\* handleAnalystResult(result): the analystResults array afterwards
handleAnalystResult(results, result) ==
  LET existingIndex == IndexOfId(results, result.id)
  IN IF existingIndex >= 1
     THEN [results EXCEPT ![existingIndex] = result]
     ELSE Append1(results, result)

\* socket.on("analyst_result"): handleAnalystResult(data); a result
\* without a prompt is dropped before anything is stored
HandleAnalystResult(result) ==
  /\ AnalystStep
  /\ IF result.prompt = ""
       THEN UNCHANGED <<analystResults, analystResultsIndex>>
       ELSE /\ analystResults' = handleAnalystResult(analystResults, result)
            /\ analystResultsIndex' =
                 saveAnalystResultToLocalStorage(FALSE, analystResults',
                                                 analystResultsIndex)

\* saveAnalystResultToLocalStorage(data) called with a result to save
SaveAnalystResult ==
  /\ AnalystStep
  /\ analystResultsIndex' =
       saveAnalystResultToLocalStorage(TRUE, analystResults, analystResultsIndex)
  /\ UNCHANGED analystResults

\* the results an analyst_result event can carry: one of those received
\* before, or the next new one
ResultsNow ==
  [id : 1..IF Len(analystResults) < MaxResults THEN Len(analystResults) + 1
           ELSE MaxResults,
   prompt : {"", "prompt"}]

InitAnalyst ==
  /\ page = "analyst"
  /\ BlockIdle
  /\ ChatIdle
  /\ IdeaIdle
  /\ LegacyIdle
  /\ AuxIdle

NextAnalyst ==
  \/ \E result \in ResultsNow : HandleAnalystResult(result)
  \/ SaveAnalystResult

SpecAnalyst == InitAnalyst /\ [][NextAnalyst]_vars

\* C19 as stated: after any sequence of saved results and analyst_result
\* events, analystResultsIndex holds at most 20 entries.
C19_Original == Len(analystResultsIndex) <= IndexLimit

(* ------------- the input after the current session is deleted --------- *)
NextInput ==
  \/ \E sessionId \in ServerIds : ClickSession(sessionId)
  \/ \E sessionId \in ServerIds, n \in 0..MaxServerMsgs : LoadSessionOk(sessionId, n)
  \/ NewSession
  \/ \E session_id \in ServerIds : CreateSessionOk(session_id)
  \/ \E session \in [id : ServerIds, name : SessionNames] : NewSessionCreated(session)
  \/ SendMessage
  \/ \E s \in chatSends : SendMessageOk(s)
  \/ \E s \in chatSends : SendMessageFail(s)
  \/ \E sessionId \in ServerIds : DeleteSessionById(sessionId)
  \/ \E sessionId \in ServerIds : DeleteSessionOk(sessionId)
  \/ \E sessionId \in ServerIds : onSessionDeleted(sessionId)

SpecInput == InitChat /\ [][NextInput]_vars

\* C20 as stated: once the current session is deleted the input stays
\* disabled while no session is current, also when a send that was in
\* flight (made in a session) settles; it is usable again once a session
\* has become current.
C20_Original ==
  [][/\ \A s \in chatSends :
          (/\ s.of # Null
           /\ chat.currentSessionId = Null
           /\ chat.inputDisabled
           /\ SendMessageOk(s) \/ SendMessageFail(s)) => chat'.inputDisabled
     /\ (/\ chat.currentSessionId = Null
         /\ chat.inputDisabled
         /\ chatSends = {}
         /\ chat'.currentSessionId # Null) => ~chat'.inputDisabled]_vars

(* ------------------- a response delivered repeatedly ------------------- *)
\* chat_response events that carry the server's timestamp of the response:
\* two deliveries of one response are equal in content and timestamp
StampedResponses ==
  [content : {"response"}, timestamp : {"sent_at"}, of : ServerIds]

\* the assistant message a chat_response event stands for is in the history
Delivered(history, data) ==
  \E i \in 1..Len(history) :
     /\ history[i].role = "assistant"
     /\ history[i].content = data.content
     /\ history[i].timestamp = data.timestamp

NextRepeat ==
  \/ \E sessionId \in ServerIds, n \in 0..MaxServerMsgs : LoadSessionOk(sessionId, n)
  \/ \E session_id \in ServerIds : CreateSessionOk(session_id)
  \/ SendMessage
  \/ \E s \in chatSends : SendMessageOk(s)
  \/ \E data \in StampedResponses : ChatResponse(data)

SpecRepeat == InitChat /\ [][NextRepeat]_vars

\* C21 as stated: a response delivered again (a chat_response event equal in
\* role, content and timestamp to an assistant message of the history) adds
\* no second assistant message for it.
C21_Original ==
  [][\A data \in StampedResponses :
       (ChatResponse(data) /\ Delivered(chat.messageHistory, data)) =>
          chat'.messageHistory = chat.messageHistory]_vars

(* --------------- the user message and what answers it ------------------ *)
InitOrder == InitChat \/ InitStream

NextOrder ==
  \/ \E sessionId \in ServerIds, n \in 0..MaxServerMsgs : LoadSessionOk(sessionId, n)
  \/ \E session_id \in ServerIds : CreateSessionOk(session_id)
  \/ SendMessage
  \/ \E s \in chatSends : SendMessageOk(s)
  \/ \E s \in chatSends : SendMessageFail(s)
  \/ \E data \in Responses : ChatResponse(data)
  \/ NextStream

SpecOrder == InitOrder /\ [][NextOrder]_vars

\* history `after` is history `before` with one message of `role` behind it
Appended(before, after, role) ==
  /\ Len(after) = Len(before) + 1
  /\ SubSeq(after, 1, Len(before)) = before
  /\ after[Len(after)].role = role

\* history `after` is `before` with nothing or messages behind it
Extended(before, after) ==
  /\ Len(after) >= Len(before)
  /\ SubSeq(after, 1, Len(before)) = before

InitSettle == InitChat \/ InitBlock \/ InitStream

NextSettle ==
  \/ \E sessionId \in ServerIds, n \in 0..MaxServerMsgs : LoadSessionOk(sessionId, n)
  \/ \E session_id \in ServerIds : CreateSessionOk(session_id)
  \/ SendMessage
  \/ \E s \in chatSends : SendMessageOk(s)
  \/ \E s \in chatSends : SendMessageFail(s)
  \/ \E blockId \in ServerIds : BlockPageEffect(blockId)
  \/ \E blockId \in ServerIds : LoadBlockOk(blockId, 0)
  \/ \E blockId \in ServerIds : FetchMessagesOk(blockId, 0)
  \/ HandleSendMessage
  \/ \E s \in sends, kind \in {"string", "object"},
        block_id \in ServerIds \cup {Null}, classified \in BOOLEAN :
       SendReplyOk(s, kind, block_id, classified)
  \/ \E s \in sends : SendReplyFail(s)
  \/ NextStream

SpecSettle == InitSettle /\ [][NextSettle]_vars

\* C23: when a send settles, with success or failure, the input disabled
\* for it is enabled again: input and button of the static page, the
\* typing flag of the block chat and of the streamed chat.
C23_SettledSendEnables ==
  [][/\ \A s \in chatSends :
          SendMessageOk(s) \/ SendMessageFail(s) => ~chat'.inputDisabled
     /\ \A s \in sends : s \notin sends' => ~store'.isTyping
     /\ \A s \in streams :
          StreamDone(s) \/ StreamError(s) => ~sessionStore'.isTyping]_vars

\* a failed send has settled: its error message is the last message and
\* the input is usable
C23_Witness ==
  \/ /\ chat.messageHistory # <<>>
     /\ chat.messageHistory[Len(chat.messageHistory)].error
     /\ chatSends = {}
     /\ ~chat.inputDisabled
  \/ /\ store.messageHistory # <<>>
     /\ store.messageHistory[Len(store.messageHistory)].error
     /\ sends = {}
     /\ ~store.isTyping

(* ---------------- the streaming buffer and the history ------------------ *)
\* C24: a chunk changes the streaming buffer alone and leaves the history
\* as it is; [DONE] commits a non-empty buffer as one assistant message;
\* an error of the stream appends the system error message and nothing of
\* the partial buffer.
C24_Original ==
  [][\A s \in 1..MaxStreams :
       LET before == sessionStore.messageHistory
           after == sessionStore'.messageHistory
       IN /\ StreamChunk(s) => after = before
          /\ (StreamDone(s) /\ streamingMessage # "") =>
                /\ Appended(before, after, "assistant")
                /\ after[Len(after)].content = streamingMessage
          /\ StreamError(s) =>
                /\ Appended(before, after, "system")
                /\ after[Len(after)].error]_vars

(* ------------- switching the session while a stream is open ------------ *)
\* C25: a load that makes another session current while an event source of
\* the session before is open closes it, so that none of its chunks and no
\* end of it reaches the buffer or the history of the new session.
C25_Original ==
  [][\A sessionId \in ServerIds, n \in 0..MaxServerMsgs :
       (/\ IdeaLoadOk(sessionId, n)
        /\ sessionStore.currentSessionId # Null
        /\ sessionId # sessionStore.currentSessionId) => streams' = {}]_vars

(* --------------------------- clearing the chat -------------------------- *)
\* handleClearChat of the idea chat (confirmed when asked): clearMessages();
\* the reply of the server call is only logged
IdeaHandleClearChat ==
  /\ IdeaStep
  /\ sessionStore.currentSessionId # Null
  /\ sessionStore' = sessionClearMessages(sessionStore)
  /\ UNCHANGED ideaRest

InitClear == InitChat \/ InitBlock \/ InitStream

NextClear ==
  \/ \E sessionId \in ServerIds, n \in 0..MaxServerMsgs : LoadSessionOk(sessionId, n)
  \/ \E session_id \in ServerIds : CreateSessionOk(session_id)
  \/ SendMessage
  \/ \E s \in chatSends : SendMessageOk(s)
  \/ \E s \in chatSends : SendMessageFail(s)
  \/ \E data \in Responses : ChatResponse(data)
  \/ ClearChat
  \/ \E blockId \in ServerIds : BlockPageEffect(blockId)
  \/ \E blockId \in ServerIds, n \in 0..MaxServerMsgs : LoadBlockOk(blockId, n)
  \/ \E blockId \in ServerIds, n \in 0..MaxServerMsgs : FetchMessagesOk(blockId, n)
  \/ HandleSendMessage
  \/ \E s \in sends : SendReplyOk(s, "string", Null, FALSE)
  \/ \E s \in sends : SendReplyFail(s)
  \/ HandleClearChat
  \/ NextStream
  \/ IdeaHandleClearChat

SpecClear == InitClear /\ [][NextClear]_vars

\* exactly one message, of role system
OneSystemMessage(history) == Len(history) = 1 /\ history[1].role = "system"

\* C26: a confirmed clear leaves a history of exactly one message, of role
\* system, and a message count of 1, on the static page, in the block chat
\* and in the idea chat, whatever the history before; the server's reply
\* to the clear request changes neither.
C26_ClearLeavesOneSystemMessage ==
  [][/\ ClearChat =>
          OneSystemMessage(chat'.messageHistory) /\ chat'.messageCount = 1
     /\ HandleClearChat =>
          /\ OneSystemMessage(store'.messageHistory)
          /\ store'.blockInfo.messageCount = 1
     /\ IdeaHandleClearChat =>
          /\ OneSystemMessage(sessionStore'.messageHistory)
          /\ sessionStore'.sessionInfo.messageCount = 1]_vars

\* a chat was cleared: the notice of the clear is its only message
C26_Witness ==
  \/ /\ OneSystemMessage(store.messageHistory)
     /\ store.messageHistory[1].content = "cleared"
     /\ store.blockInfo.messageCount = 1
  \/ /\ OneSystemMessage(chat.messageHistory)
     /\ chat.messageHistory[1].content = "cleared"
     /\ chat.messageCount = 1

(* ------------- the typing flag while a block send is in flight --------- *)
\* C27: in the block chat the typing flag is true for as long as a send
\* request is in flight, whatever load or fetch settles in the meantime.
C27_Original == sends # {} => store.isTyping

(* ------------- a session id the server never confirmed ----------------- *)
\* the static page with a server that confirms no session: every load and
\* every creation fails
NextUnconfirmed ==
  \/ \E sessionId \in ServerIds : LoadSessionFail(sessionId)
  \/ NewSession
  \/ CreateSessionFail
  \/ SendMessage
  \/ \E s \in chatSends : SendMessageOk(s)
  \/ \E s \in chatSends : SendMessageFail(s)
  \/ \E data \in Responses : ChatResponse(data)
  \/ ClearChat

SpecUnconfirmed == InitChat /\ [][NextUnconfirmed]_vars

\* C28: as long as the server has confirmed no session, by a load or by a
\* creation, no session is current once the load of the URL's id and the
\* creation that follows it have failed, and no message is sent in the name
\* of a session.
C28_Original ==
  /\ (chatLoads = {} /\ chatCreates = 0) => chat.currentSessionId = Null
  /\ \A s \in chatSends : s.of = Null

(* ------------------- sockets with live handlers ------------------------ *)
\* the sockets that are connected: each has its own chat_response,
\* typing_indicator and session_update handlers and gets every pushed event
Live == {i \in 1..Len(sockets) : sockets[i] = "connected"}

\* C29: at most one connection with live event handlers at any time,
\* however many reconnects were attempted, so that a pushed event is
\* applied once.
C29_Original == Cardinality(Live) <= 1

(* ---------------- the endpoint a block message goes to ------------------ *)
\* analyzeBlock: the continuing-turn endpoint with block_id when a blockId
\* is passed, the first-turn endpoint without one
Endpoint(blockId) ==
  IF blockId # Null THEN "/analysis_of_block" ELSE "/blocks/analyze"

\* C30: a message goes to the continuing-turn endpoint only with a block id
\* the server assigned; a block made by the local fallback sends to the
\* first-turn endpoint until the server has returned its id.
C30_Original ==
  \A s \in sends :
     Endpoint(s.blockId) = "/analysis_of_block" => s.blockId \in ServerIds

====
